---- MODULE Spec2Model ----
(***************************************************************************)
(* Model of src/app.py: the response normalizer                            *)
(* (clean_and_parse_response), the three aggregation pipelines             *)
(* (search_flights, search_hotels, get_weather_forecast) with their        *)
(* fallback providers, and the two request flows (generate_itinerary,      *)
(* surprise_destination).                                                  *)
(*                                                                         *)
(* Text is a sequence of lexemes.  The characters the regular expressions  *)
(* and the JSON grammar distinguish are lexemes of their own; every other  *)
(* maximal run of ordinary characters is one word lexeme.  The three       *)
(* backticks of a fence marker are one lexeme, the word json is one        *)
(* lexeme, WS is one whitespace character.  Backslash escapes do not       *)
(* occur in the texts considered.                                          *)
(***************************************************************************)
EXTENDS Integers, Sequences, FiniteSets, TLC

VARIABLES
    call,           \* the entry point invoked and its inputs
    config,         \* process-wide credentials (module globals of app.py)
    upstream,       \* what the external providers answer during this invocation
    draft,          \* outcome of clean_and_parse_response
    flights_data,   \* outcome of search_flights
    hotels_data,    \* outcome of search_hotels
    weather_data,   \* outcome of get_weather_forecast
    response,       \* what the route handler returns
    steps           \* the calls the route handler made, in order, with their arguments

vars == <<call, config, upstream, draft, flights_data, hotels_data,
          weather_data, response, steps>>

NotRun == [state |-> "not_run"]

(***************************************************************************)
(* Lexemes                                                                 *)
(***************************************************************************)
LB == "{"
RB == "}"
LS == "["
RS == "]"
CM == ","
CL == ":"
DQ == "\""
WS == " "
FENCE == "<fence>"   \* the three backticks of a fence marker
JSONTAG == "json"
DIGIT == "1"
NULLWORD == "null"

Special == {LB, RB, LS, RS, CM, CL, DQ, WS, FENCE}

IsWord(c) == c \notin Special

(***************************************************************************)
(* JSON values as the json module of Python builds them: str, int, None, dict   *)
(* (a set of <<key, value>> pairs with unique keys) and list.              *)
(***************************************************************************)
JStr(s) == [t |-> "str", s |-> s, m |-> {}, a |-> <<>>]
JNum(s) == [t |-> "num", s |-> s, m |-> {}, a |-> <<>>]
JNull == [t |-> "null", s |-> <<>>, m |-> {}, a |-> <<>>]
JObj(m) == [t |-> "obj", s |-> <<>>, m |-> m, a |-> <<>>]
JArr(a) == [t |-> "arr", s |-> <<>>, m |-> {}, a |-> a]

\* d[k] = v on a dict: a repeated key keeps the last value
DictPut(m, k, v) == {p \in m : p[1] # k} \cup {<<k, v>>}

DictKeys(m) == {p[1] : p \in m}

\* d.get(k, dflt)
DictGet(m, k, dflt) ==
    IF k \in DictKeys(m) THEN (CHOOSE p \in m : p[1] = k)[2] ELSE dflt

(***************************************************************************)
(* The regular expressions of clean_and_parse_response                     *)
(***************************************************************************)
\* index of the first lexeme at or after i that is not whitespace (\s*)
RECURSIVE SkipWs(_, _)
SkipWs(t, i) ==
    IF i <= Len(t) /\ t[i] = WS THEN SkipWs(t, i + 1) ELSE i

\* the lexemes of t[lo..hi] outside the set of matched positions, in order
RECURSIVE Unmatched(_, _, _, _)
Unmatched(t, matched, lo, hi) ==
    IF lo > hi THEN <<>>
    ELSE IF lo = hi THEN (IF lo \in matched THEN <<>> ELSE <<t[lo]>>)
    ELSE LET mid == (lo + hi) \div 2
         IN  Unmatched(t, matched, lo, mid) \o Unmatched(t, matched, mid + 1, hi)

\* re.sub(r'```json\s*', '', text): each match is a fence marker, the tag and
\* the whitespace after it
StripJsonFence(t) ==
    LET starts == {j \in 1..(Len(t) - 1) : t[j] = FENCE /\ t[j + 1] = JSONTAG}
        matched == UNION { j..(SkipWs(t, j + 2) - 1) : j \in starts }
    IN  Unmatched(t, matched, 1, Len(t))

\* re.sub(r'```\s*', '', text): each match is a fence marker and the
\* whitespace after it
StripFence(t) ==
    LET starts == {j \in 1..Len(t) : t[j] = FENCE}
        matched == UNION { j..(SkipWs(t, j + 1) - 1) : j \in starts }
    IN  Unmatched(t, matched, 1, Len(t))

Positions(t, c) == {i \in 1..Len(t) : t[i] = c}

Min(S) == CHOOSE x \in S : \A y \in S : x <= y
Max(S) == CHOOSE x \in S : \A y \in S : x >= y

\* re.search(r'\{[\s\S]*\}', text): the first '{' through the last '}'
HasJsonMatch(t) ==
    /\ Positions(t, LB) # {}
    /\ \E j \in Positions(t, RB) : j > Min(Positions(t, LB))

JsonMatch(t) ==
    SubSeq(t, Min(Positions(t, LB)), Max(Positions(t, RB)))

\* re.sub(r',\s*([\]}])', r'\1', json_str): each match is a comma, the
\* whitespace after it and a closer; the closer is kept
RemoveTrailingCommas(t) ==
    LET starts == {j \in 1..Len(t) : /\ t[j] = CM
                                      /\ SkipWs(t, j + 1) <= Len(t)
                                      /\ t[SkipWs(t, j + 1)] \in {RS, RB}}
        matched == UNION { j..(SkipWs(t, j + 1) - 1) : j \in starts }
    IN  Unmatched(t, matched, 1, Len(t))

(***************************************************************************)
(* json.loads                                                              *)
(***************************************************************************)
ParseFail == [ok |-> FALSE, v |-> JNull, next |-> 0]
ParseOk(v, next) == [ok |-> TRUE, v |-> v, next |-> next]

\* a string literal starting at the quote t[i]: up to the next quote
ParseString(t, i) ==
    LET closing == {j \in (i + 1)..Len(t) : t[j] = DQ}
    IN  IF closing = {} THEN ParseFail
        ELSE ParseOk(JStr(SubSeq(t, i + 1, Min(closing) - 1)), Min(closing) + 1)

\* end of the run of word lexemes starting at i
RECURSIVE WordRunEnd(_, _)
WordRunEnd(t, i) ==
    IF i <= Len(t) /\ IsWord(t[i]) THEN WordRunEnd(t, i + 1) ELSE i

\* a number or the literal null
ParseScalar(t, i) ==
    LET e == WordRunEnd(t, i)
        run == SubSeq(t, i, e - 1)
    IN  IF \A k \in 1..Len(run) : run[k] = DIGIT THEN ParseOk(JNum(run), e)
        ELSE IF run = <<NULLWORD>> THEN ParseOk(JNull, e)
        ELSE ParseFail

RECURSIVE ParseValue(_, _), ParseMembers(_, _, _), ParseElements(_, _, _)

\* the value starting at t[i] (whitespace already skipped)
ParseValue(t, i) ==
    IF i > Len(t) THEN ParseFail
    ELSE IF t[i] = DQ THEN ParseString(t, i)
    ELSE IF t[i] = LB THEN
        LET j == SkipWs(t, i + 1)
        IN  IF j <= Len(t) /\ t[j] = RB THEN ParseOk(JObj({}), j + 1)
            ELSE ParseMembers(t, j, {})
    ELSE IF t[i] = LS THEN
        LET j == SkipWs(t, i + 1)
        IN  IF j <= Len(t) /\ t[j] = RS THEN ParseOk(JArr(<<>>), j + 1)
            ELSE ParseElements(t, j, <<>>)
    ELSE IF IsWord(t[i]) THEN ParseScalar(t, i)
    ELSE ParseFail

\* "key" : value pairs of an object, the key expected at t[i]
ParseMembers(t, i, acc) ==
    IF i > Len(t) \/ t[i] # DQ THEN ParseFail
    ELSE
      LET key == ParseString(t, i) IN
      IF ~key.ok THEN ParseFail
      ELSE
        LET c == SkipWs(t, key.next) IN
        IF c > Len(t) \/ t[c] # CL THEN ParseFail
        ELSE
          LET val == ParseValue(t, SkipWs(t, c + 1)) IN
          IF ~val.ok THEN ParseFail
          ELSE
            LET n == SkipWs(t, val.next)
                m == DictPut(acc, key.v.s, val.v)
            IN  IF n > Len(t) THEN ParseFail
                ELSE IF t[n] = RB THEN ParseOk(JObj(m), n + 1)
                ELSE IF t[n] = CM THEN ParseMembers(t, SkipWs(t, n + 1), m)
                ELSE ParseFail

\* the elements of an array, the next one expected at t[i]
ParseElements(t, i, acc) ==
    LET val == ParseValue(t, i) IN
    IF ~val.ok THEN ParseFail
    ELSE
      LET n == SkipWs(t, val.next) IN
      IF n > Len(t) THEN ParseFail
      ELSE IF t[n] = RS THEN ParseOk(JArr(Append(acc, val.v)), n + 1)
      ELSE IF t[n] = CM
           THEN ParseElements(t, SkipWs(t, n + 1), Append(acc, val.v))
      ELSE ParseFail

\* json.loads(s): one value, whitespace around it, nothing after it
json_loads(t) ==
    LET r == ParseValue(t, SkipWs(t, 1))
    IN  IF r.ok /\ SkipWs(t, r.next) = Len(t) + 1 THEN r ELSE ParseFail

(***************************************************************************)
(* The canned default draft, written three times in the source             *)
(***************************************************************************)
K(name) == <<name>>

DefaultCost ==
    JObj({ <<K("Accommodation"), JStr(<<"$100-200/night">>)>>,
           <<K("Food"), JStr(<<"$50-100/day">>)>>,
           <<K("Activities"), JStr(<<"$30-80/day">>)>>,
           <<K("Transportation"), JStr(<<"$20-50/day">>)>>,
           <<K("Total"), JStr(<<"$500-1000 for 5 days">>)>> })

DefaultDraftLiteral ==
    JObj({ <<K("destination"), JStr(<<"Paris", CM, WS, "France">>)>>,
           <<K("itinerary"), JStr(<<"default itinerary">>)>>,
           <<K("cuisine"), JStr(<<"default cuisine">>)>>,
           <<K("fun_fact"), JStr(<<"default fun fact">>)>>,
           <<K("estimated_cost"), DefaultCost>>,
           <<K("best_time_to_visit"), JStr(<<"default best time">>)>>,
           <<K("packing_tips"), JStr(<<"default packing tips">>)>> })

\* the default draft with one field of the literal left out
DraftWithoutFunFact ==
    JObj({ p \in DefaultDraftLiteral.m : p[1] # K("fun_fact") })

NoJsonDraft == DefaultDraftLiteral
DecodeErrorDraft == DefaultDraftLiteral
GeneralErrorDraft == DefaultDraftLiteral

DraftFields ==
    { K("destination"), K("itinerary"), K("cuisine"), K("fun_fact"),
      K("estimated_cost"), K("best_time_to_visit"), K("packing_tips") }

(***************************************************************************)
(* clean_and_parse_response                                                *)
(***************************************************************************)
Returned(path, v) == [raised |-> FALSE, exc |-> "none", path |-> path, value |-> v]
Raised(exc) == [raised |-> TRUE, exc |-> exc, path |-> "raise", value |-> JNull]

\* the body of the try block
ParseAttempt(text) ==
    IF ~text.isStr THEN Raised("TypeError")
    ELSE
      LET stripped == StripFence(StripJsonFence(text.toks)) IN
      IF HasJsonMatch(stripped)
      THEN LET json_str == RemoveTrailingCommas(JsonMatch(stripped))
               r == json_loads(json_str)
           IN  IF r.ok THEN Returned("parsed", r.v)
               ELSE Raised("JSONDecodeError")
      ELSE Returned("no_json", NoJsonDraft)

\* the except clauses with the catch-all `except Exception` left out: only
\* json.JSONDecodeError is handled
HandleDecodeErrorOnly(attempt) ==
    IF attempt.raised /\ attempt.exc = "JSONDecodeError"
    THEN Returned("decode_error", DecodeErrorDraft)
    ELSE attempt

\* the except clauses
HandleParseError(attempt) ==
    IF ~attempt.raised THEN attempt
    ELSE IF attempt.exc = "JSONDecodeError"
         THEN Returned("decode_error", DecodeErrorDraft)
         ELSE Returned("general_error", GeneralErrorDraft)

clean_and_parse_response(text) == HandleParseError(ParseAttempt(text))

(***************************************************************************)
(* Calendar dates: a '%Y-%m-%d' string is its three fields <<y, m, d>>     *)
(***************************************************************************)
IsLeap(y) == (y % 4 = 0 /\ y % 100 # 0) \/ y % 400 = 0

DaysInMonth(y, m) ==
    IF m = 2 THEN (IF IsLeap(y) THEN 29 ELSE 28)
    ELSE IF m \in {4, 6, 9, 11} THEN 30 ELSE 31

NextDay(dt) ==
    IF dt[3] < DaysInMonth(dt[1], dt[2]) THEN <<dt[1], dt[2], dt[3] + 1>>
    ELSE IF dt[2] < 12 THEN <<dt[1], dt[2] + 1, 1>>
    ELSE <<dt[1] + 1, 1, 1>>

PrevDay(dt) ==
    IF dt[3] > 1 THEN <<dt[1], dt[2], dt[3] - 1>>
    ELSE IF dt[2] > 1 THEN <<dt[1], dt[2] - 1, DaysInMonth(dt[1], dt[2] - 1)>>
    ELSE <<dt[1] - 1, 12, 31>>

\* dt + timedelta(days=n)
RECURSIVE AddDays(_, _)
AddDays(dt, n) ==
    IF n = 0 THEN dt
    ELSE IF n > 0 THEN AddDays(NextDay(dt), n - 1)
    ELSE AddDays(PrevDay(dt), n + 1)

(***************************************************************************)
(* Fallback data providers                                                 *)
(***************************************************************************)
FallbackMarker == "(Fallback Data)"
WeatherFallbackMarker == "(Fallback)"

HasMarker(textField, marker) == \E i \in 1..Len(textField) : textField[i] = marker

Route(from, to) == [from |-> from, to |-> to]

get_fallback_flights(origin, destination, departure_date, return_date) ==
    << [airline |-> <<"Generic Airlines">>,
        route |-> Route(origin, destination),
        price |-> <<"$400-800">>,
        departure |-> departure_date,
        return |-> return_date,
        note |-> <<"Prices vary by airline and booking time.", FallbackMarker>>],
       [airline |-> <<"Budget Carrier">>,
        route |-> Route(origin, destination),
        price |-> <<"$300-600">>,
        departure |-> departure_date,
        return |-> return_date,
        note |-> <<"Check for additional fees.", FallbackMarker>>],
       [airline |-> <<"Premium Flights">>,
        route |-> Route(origin, destination),
        price |-> <<"$600-1200">>,
        departure |-> departure_date,
        return |-> return_date,
        note |-> <<"Includes meals and baggage.", FallbackMarker>>] >>

get_fallback_hotels(city_name) ==
    << [name |-> <<"Budget Stay in">> \o city_name,
        rating |-> "4.2/5",
        price |-> <<"$80-150/night">>,
        location |-> <<"City Center">>,
        amenities |-> <<"WiFi, Breakfast.", FallbackMarker>>],
       [name |-> <<"Mid-Range Comfort in">> \o city_name,
        rating |-> "4.5/5",
        price |-> <<"$150-250/night">>,
        location |-> <<"Near Attractions">>,
        amenities |-> <<"WiFi, Pool, Restaurant.", FallbackMarker>>],
       [name |-> <<"Luxury Retreat in">> \o city_name,
        rating |-> "4.8/5",
        price |-> <<"$250-500/night">>,
        location |-> <<"Prime Location">>,
        amenities |-> <<"WiFi, Spa, Fine Dining.", FallbackMarker>>] >>

FallbackWeatherDays == 5
FallbackBaseTemp == 20

\* base_date is datetime.now()
get_fallback_weather(city_name, base_date) ==
    [ k \in 1..FallbackWeatherDays |->
        [date |-> AddDays(base_date, k - 1),
         temperature |-> FallbackBaseTemp + ((k - 1) % 5),
         description |-> <<"Partly Cloudy", WeatherFallbackMarker>>,
         icon |-> "02d"] ]

(***************************************************************************)
(* Outcomes of a function: a return value or an exception, with the        *)
(* upstream calls it issued, in order                                      *)
(***************************************************************************)
None == "None"
Unused == [kind |-> "unused"]

\* Python truthiness of a token or code: None and '' are false
Falsy(x) == x \in {None, ""}

Ret(v, calls, path) ==
    [raised |-> FALSE, exc |-> "none", value |-> v, calls |-> calls, path |-> path]
Exc(exc, calls) ==
    [raised |-> TRUE, exc |-> exc, value |-> <<>>, calls |-> calls, path |-> "raise"]

ApiCall(api, arg) == [api |-> api, arg |-> arg]

(***************************************************************************)
(* get_amadeus_token                                                       *)
(***************************************************************************)
TokenResponses ==
    { [kind |-> "ok", token |-> "tok"],        \* 200 with an access_token
      [kind |-> "ok", token |-> None],         \* 200 without access_token
      [kind |-> "non200", token |-> None],
      [kind |-> "exception", token |-> None] } \* requests.post or .json() raises

get_amadeus_token(cfg, resp) ==
    IF ~cfg.amadeus THEN Ret(None, <<>>, "no_credentials")
    ELSE LET calls == <<ApiCall("token", <<>>)>> IN
         IF resp.kind = "exception" THEN Ret(None, calls, "except")
         ELSE IF resp.kind = "ok" THEN Ret(resp.token, calls, "ok")
         ELSE Ret(None, calls, "non200")

\* the token responses a caller may see: none is requested without credentials
TokenEnvs(cfg) == IF cfg.amadeus THEN TokenResponses ELSE {Unused}

(***************************************************************************)
(* search_city_code                                                        *)
(***************************************************************************)
CityResponses ==
    { [kind |-> "found", code |-> "IATA"],      \* 200, data[0]['iataCode']
      [kind |-> "no_iata", code |-> None],      \* 200, data[0] has no iataCode
      [kind |-> "empty", code |-> None],        \* 200, no data
      [kind |-> "non200", code |-> None],
      [kind |-> "exception", code |-> None] }

search_city_code(cfg, env, city_name) ==
    LET token == get_amadeus_token(cfg, env.tok) IN
    IF Falsy(token.value) THEN Ret(None, token.calls, "no_token")
    ELSE LET calls == token.calls \o <<ApiCall("locations", city_name)>> IN
         IF env.lookup.kind = "found" THEN Ret(env.lookup.code, calls, "found")
         ELSE IF env.lookup.kind \in {"exception", "no_iata"}
              THEN Ret(None, calls, "except")
         ELSE Ret(None, calls, "none")

\* what search_city_code may meet: no lookup is issued without a token
CityEnvs(cfg) ==
    UNION { { [tok |-> t, lookup |-> l] :
                l \in IF Falsy(get_amadeus_token(cfg, t).value)
                      THEN {Unused} ELSE CityResponses } :
            t \in TokenEnvs(cfg) }

NoCityEnv == [tok |-> Unused, lookup |-> Unused]

(***************************************************************************)
(* search_flights                                                          *)
(***************************************************************************)
MaxOffers == 4
OffersTaken == 3

OfferShapes ==
    { "direct",            \* one segment
      "connecting",        \* several segments
      "no_segments",       \* itineraries[0] has no segments
      "no_itineraries",
      "no_price" }         \* offer['price'] is missing: KeyError

\* names the provider's carrier dictionary may hold; <<>>: the code is not in it
CarrierNames == { <<>>, <<"Air Example">>, <<"Air", FallbackMarker>> }

\* the answers to the offer search, with up to n offers
FlightResponses(n) ==
    { [kind |-> k, offers |-> <<>>, carrier |-> <<>>] : k \in {"non200", "exception"} }
    \cup { [kind |-> "ok", offers |-> o, carrier |-> c] :
             o \in UNION { [1..k -> OfferShapes] : k \in 0..n },
             c \in CarrierNames }

\* the record appended for one offer
FlightRecord(shape, carrier, origin_code, dest_code, departure_date, return_date) ==
    IF shape \in {"direct", "connecting"}
    THEN [airline |-> IF carrier = <<>> THEN <<"Multiple Airlines">> ELSE carrier,
          route |-> Route(<<"DEP">>, <<"ARR">>),
          price |-> <<"USD 100">>,
          departure |-> departure_date,
          return |-> return_date,
          note |-> IF shape = "direct" THEN <<"Direct flight">>
                   ELSE <<"Connecting flight">>]
    ELSE [airline |-> <<"Multiple Airlines">>,
          route |-> Route(<<origin_code>>, <<dest_code>>),
          price |-> <<"USD 100">>,
          departure |-> departure_date,
          return |-> return_date,
          note |-> <<"Itinerary details not fully available">>]

\* a loop that stops at the offer without a price and keeps the records
\* collected so far
RECURSIVE CollectFlightsKeepPartial(_, _, _, _, _, _, _)
CollectFlightsKeepPartial(offers, flights, carrier, oc, dc, dep, ret) ==
    IF offers = <<>> THEN [raised |-> FALSE, list |-> flights]
    ELSE IF Head(offers) = "no_price" THEN [raised |-> FALSE, list |-> flights]
    ELSE CollectFlightsKeepPartial(
             Tail(offers),
             Append(flights, FlightRecord(Head(offers), carrier, oc, dc, dep, ret)),
             carrier, oc, dc, dep, ret)

\* for offer in data['data'][:3]: the list built, or the KeyError met
RECURSIVE CollectFlights(_, _, _, _, _, _, _)
CollectFlights(offers, flights, carrier, oc, dc, dep, ret) ==
    IF offers = <<>> THEN [raised |-> FALSE, list |-> flights]
    ELSE IF Head(offers) = "no_price" THEN [raised |-> TRUE, list |-> flights]
    ELSE CollectFlights(Tail(offers),
                        Append(flights, FlightRecord(Head(offers), carrier, oc, dc, dep, ret)),
                        carrier, oc, dc, dep, ret)

FirstN(seq, n) == SubSeq(seq, 1, IF Len(seq) < n THEN Len(seq) ELSE n)

\* a try block that sends the fare search whatever the city lookups gave
FlightsSearchRegardless(cfg, env, origin, destination, departure_date, return_date) ==
    LET fallback == get_fallback_flights(origin, destination, departure_date, return_date)
        token == get_amadeus_token(cfg, env.tok)
    IN
    IF Falsy(token.value) THEN Ret(fallback, token.calls, "no_token")
    ELSE
      LET origin_code == search_city_code(cfg, env.origin, origin)
          dest_code == search_city_code(cfg, env.dest, destination)
          calls == token.calls \o origin_code.calls \o dest_code.calls
                     \o <<ApiCall("flight-offers",
                                  <<origin_code.value, dest_code.value>>)>>
      IN
      IF env.search.kind = "exception" THEN Exc("RequestException", calls)
      ELSE IF env.search.kind = "ok" THEN
        LET got == CollectFlights(FirstN(env.search.offers, OffersTaken), <<>>,
                                  env.search.carrier, origin_code.value,
                                  dest_code.value, departure_date, return_date)
        IN  IF got.raised THEN Exc("KeyError", calls)
            ELSE IF got.list # <<>> THEN Ret(got.list, calls, "live")
            ELSE Ret(fallback, calls, "no_offers")
      ELSE Ret(fallback, calls, "non200")

\* the body of the try block
FlightsAttempt(cfg, env, origin, destination, departure_date, return_date) ==
    LET fallback == get_fallback_flights(origin, destination, departure_date, return_date)
        token == get_amadeus_token(cfg, env.tok)
    IN
    IF Falsy(token.value) THEN Ret(fallback, token.calls, "no_token")
    ELSE
      LET origin_code == search_city_code(cfg, env.origin, origin)
          dest_code == search_city_code(cfg, env.dest, destination)
          lookups == token.calls \o origin_code.calls \o dest_code.calls
      IN
      IF Falsy(origin_code.value) \/ Falsy(dest_code.value)
      THEN Ret(fallback, lookups, "no_city_code")
      ELSE
        LET calls == lookups \o <<ApiCall("flight-offers",
                                          <<origin_code.value, dest_code.value>>)>>
        IN
        IF env.search.kind = "exception" THEN Exc("RequestException", calls)
        ELSE IF env.search.kind = "ok" THEN
          LET got == CollectFlights(FirstN(env.search.offers, OffersTaken), <<>>,
                                    env.search.carrier, origin_code.value,
                                    dest_code.value, departure_date, return_date)
          IN  IF got.raised THEN Exc("KeyError", calls)
              ELSE IF got.list # <<>> THEN Ret(got.list, calls, "live")
              ELSE Ret(fallback, calls, "no_offers")
        ELSE Ret(fallback, calls, "non200")

\* except Exception: return the fallback list
FlightsExcept(attempt, origin, destination, departure_date, return_date) ==
    IF attempt.raised
    THEN Ret(get_fallback_flights(origin, destination, departure_date, return_date),
             attempt.calls, "except")
    ELSE attempt

search_flights(cfg, env, origin, destination, departure_date, return_date) ==
    FlightsExcept(FlightsAttempt(cfg, env, origin, destination, departure_date, return_date),
                  origin, destination, departure_date, return_date)

\* what search_flights may meet: a call that is not issued has no response
FlightEnvsOver(cfg, responses) ==
    UNION { IF Falsy(get_amadeus_token(cfg, t).value)
            THEN { [tok |-> t, origin |-> NoCityEnv, dest |-> NoCityEnv, search |-> Unused] }
            ELSE UNION { { [tok |-> t, origin |-> o, dest |-> d, search |-> r] :
                             r \in IF o.lookup.kind = "found" /\ d.lookup.kind = "found"
                                   THEN responses ELSE {Unused} } :
                         <<o, d>> \in CityEnvs(cfg) \X CityEnvs(cfg) } :
            t \in TokenEnvs(cfg) }

FlightEnvs(cfg) == FlightEnvsOver(cfg, FlightResponses(MaxOffers))

(***************************************************************************)
(* search_hotels                                                           *)
(***************************************************************************)
MaxHotels == 6
HotelIdsTaken == 5

HotelEntries == { "id", "no_id" }      \* no_id: hotel_info['hotelId'] is missing

\* the answers to the hotel listing, with up to n entries
HotelListResponses(n) ==
    { [kind |-> k, hotels |-> <<>>] : k \in {"non200", "exception"} }
    \cup { [kind |-> "ok", hotels |-> h] :
             h \in UNION { [1..k -> HotelEntries] : k \in 0..n } }

HotelOfferResponses ==
    { [kind |-> "offer", name |-> <<"Grand Hotel">>],
      [kind |-> "offer", name |-> <<"Hotel", FallbackMarker>>],
      [kind |-> "no_offers", name |-> <<>>],   \* 200, data[0]['offers'] is empty
      [kind |-> "non200", name |-> <<>>],      \* or 200 without data
      [kind |-> "exception", name |-> <<>>] }

\* the record with the amenities tagged as the fallback records are
HotelRecordTagged(resp, city_name) ==
    [name |-> resp.name,
     rating |-> "N/A",
     price |-> <<"USD 100/night">>,
     location |-> city_name,
     amenities |-> <<"WiFi, Breakfast.", FallbackMarker>>]

HotelRecord(resp, city_name) ==
    [name |-> resp.name,
     rating |-> "N/A",
     price |-> <<"USD 100/night">>,
     location |-> city_name,
     amenities |-> <<"WiFi, Breakfast">>]

\* for hotel_info in ...['data'][:5]: hotel_ids.append(hotel_info['hotelId'])
HotelIdsRaise(resp) ==
    resp.kind = "ok" /\ \E i \in 1..Len(FirstN(resp.hotels, HotelIdsTaken)) :
                           resp.hotels[i] = "no_id"

HotelIdCount(resp) ==
    IF resp.kind = "ok" THEN Len(FirstN(resp.hotels, HotelIdsTaken)) ELSE 0

\* for hotel_id in hotel_ids: one offer request each
RECURSIVE CollectHotels(_, _, _, _, _, _)
CollectHotels(offers, i, n, hotels, calls, city_name) ==
    IF i > n THEN [raised |-> FALSE, list |-> hotels, calls |-> calls]
    ELSE LET issued == Append(calls, ApiCall("hotel-offers", <<i>>)) IN
         IF offers[i].kind = "exception"
         THEN [raised |-> TRUE, list |-> hotels, calls |-> issued]
         ELSE CollectHotels(offers, i + 1, n,
                            IF offers[i].kind = "offer"
                            THEN Append(hotels, HotelRecord(offers[i], city_name))
                            ELSE hotels,
                            issued, city_name)

\* the body of the try block
HotelsAttempt(cfg, env, city_name, check_in, check_out) ==
    LET fallback == get_fallback_hotels(city_name)
        token == get_amadeus_token(cfg, env.tok)
    IN
    IF Falsy(token.value) THEN Ret(fallback, token.calls, "no_token")
    ELSE
      LET city_code == search_city_code(cfg, env.city, city_name) IN
      IF Falsy(city_code.value)
      THEN Ret(fallback, token.calls \o city_code.calls, "no_city_code")
      ELSE
        LET listed == token.calls \o city_code.calls
                        \o <<ApiCall("hotels-by-city", <<city_code.value>>)>>
        IN
        IF env.list.kind = "exception" THEN Exc("RequestException", listed)
        ELSE IF HotelIdsRaise(env.list) THEN Exc("KeyError", listed)
        ELSE
          LET got == CollectHotels(env.offers, 1, HotelIdCount(env.list), <<>>,
                                   listed, city_name)
          IN  IF got.raised THEN Exc("RequestException", got.calls)
              ELSE IF got.list # <<>> THEN Ret(got.list, got.calls, "live")
              ELSE Ret(fallback, got.calls, "no_hotels")

\* except Exception: return the fallback list
HotelsExcept(attempt, city_name) ==
    IF attempt.raised
    THEN Ret(get_fallback_hotels(city_name), attempt.calls, "except")
    ELSE attempt

search_hotels(cfg, env, city_name, check_in, check_out) ==
    HotelsExcept(HotelsAttempt(cfg, env, city_name, check_in, check_out), city_name)

\* offer responses for the requests issued: none follows a request that raised
RECURSIVE OfferScripts(_, _)
OfferScripts(n, responses) ==
    IF n = 0 THEN { <<>> }
    ELSE { <<r>> : r \in {x \in responses : x.kind = "exception"} }
         \cup UNION { { <<r>> \o rest : rest \in OfferScripts(n - 1, responses) } :
                      r \in {x \in responses : x.kind # "exception"} }

PadOffers(script, n) == [i \in 1..n |-> IF i <= Len(script) THEN script[i] ELSE Unused]

HotelEnvsOver(cfg, lists, responses) ==
    UNION { IF Falsy(get_amadeus_token(cfg, t).value)
            THEN { [tok |-> t, city |-> NoCityEnv, list |-> Unused, offers |-> <<>>] }
            ELSE UNION { IF c.lookup.kind # "found"
                         THEN { [tok |-> t, city |-> c, list |-> Unused, offers |-> <<>>] }
                         ELSE UNION { IF HotelIdsRaise(l)
                                      THEN { [tok |-> t, city |-> c, list |-> l,
                                              offers |-> <<>>] }
                                      ELSE { [tok |-> t, city |-> c, list |-> l,
                                              offers |-> PadOffers(o, HotelIdCount(l))] :
                                               o \in OfferScripts(HotelIdCount(l), responses) } :
                                      l \in lists } :
                         c \in CityEnvs(cfg) } :
            t \in TokenEnvs(cfg) }

HotelEnvs(cfg) == HotelEnvsOver(cfg, HotelListResponses(MaxHotels), HotelOfferResponses)

(***************************************************************************)
(* get_weather_forecast                                                    *)
(***************************************************************************)
MaxForecast == 6
ForecastCap == 5

\* datetime.fromtimestamp(dt).strftime('%Y-%m-%d'), dt in seconds (UTC)
DateStr(dt) == AddDays(<<1970, 1, 1>>, dt \div 86400)

\* round(x) for x = half / 2: Python rounds a tie to the even integer
PyRound(half) ==
    LET q == half \div 2 IN
    IF half % 2 = 0 THEN q ELSE IF q % 2 = 0 THEN q ELSE q + 1

TitleWord(w) ==
    IF w = "light" THEN "Light" ELSE IF w = "rain" THEN "Rain" ELSE w

\* description.title()
Title(d) == [i \in 1..Len(d) |-> TitleWord(d[i])]

ItemShapes ==
    { "ok",
      "no_dt",       \* item['dt'] is missing: KeyError
      "no_main" }    \* item['main'] or item['weather'] is missing: KeyError

\* the i-th item of a forecast list: its own time of day and temperature
ForecastItem(i, day, shape) ==
    [dt |-> day * 86400 + i * 3600,
     temp |-> 4 * i + (i % 2),          \* in half degrees
     description |-> <<"light", WS, "rain">>,
     icon |-> "10d",
     shape |-> shape]

MaxOf(seq) == IF seq = <<>> THEN 0 ELSE Max({seq[i] : i \in 1..Len(seq)})

\* sequences of n date labels, the labels numbered in order of first occurrence
RECURSIVE DatePatterns(_)
DatePatterns(n) ==
    IF n = 0 THEN { <<>> }
    ELSE UNION { { Append(q, d) :
                     d \in 1..(IF MaxOf(q) < ForecastCap + 1 THEN MaxOf(q) + 1
                               ELSE ForecastCap + 1) } :
                 q \in DatePatterns(n - 1) }

\* the calendar day of a label: ascending or descending dates
DayOfLabel(label, order) ==
    IF order = "ascending" THEN label - 1 ELSE ForecastCap + 1 - label

ForecastLists(max) ==
    UNION { UNION {
        { [i \in 1..Len(q) |-> ForecastItem(i, DayOfLabel(q[i], order), "ok")] :
            order \in {"ascending", "descending"} }
        \cup { [i \in 1..Len(q) |->
                  ForecastItem(i, DayOfLabel(q[i], "ascending"),
                               IF i = bad THEN shape ELSE "ok")] :
                 bad \in {1, Len(q)} \cap (1..Len(q)), shape \in {"no_dt", "no_main"} } :
        q \in DatePatterns(n) } : n \in 0..max }

GeocodeResponses ==
    { [kind |-> k] : k \in { "found",        \* 200, [{lat, lon}]
                             "no_lat",       \* 200, first match has no lat: KeyError
                             "empty",        \* 200, []
                             "non200",
                             "exception" } }

ForecastResponses(max) ==
    { [kind |-> k, items |-> <<>>] : k \in {"non200", "exception"} }
    \cup { [kind |-> "ok", items |-> l] : l \in ForecastLists(max) }

ForecastEntry(item) ==
    [date |-> DateStr(item.dt),
     temperature |-> PyRound(item.temp),
     description |-> Title(item.description),
     icon |-> item.icon]

\* the loop with the latest item of a date replacing the entry of that date
RECURSIVE CollectForecastLastWins(_, _, _)
CollectForecastLastWins(items, forecast, seen_dates) ==
    IF items = <<>> THEN [raised |-> FALSE, list |-> forecast]
    ELSE LET item == Head(items) IN
         IF item.shape = "no_dt" THEN [raised |-> TRUE, list |-> forecast]
         ELSE IF DateStr(item.dt) \notin seen_dates /\ Len(forecast) < ForecastCap
         THEN IF item.shape = "no_main" THEN [raised |-> TRUE, list |-> forecast]
              ELSE CollectForecastLastWins(Tail(items),
                                           Append(forecast, ForecastEntry(item)),
                                           seen_dates \cup {DateStr(item.dt)})
         ELSE CollectForecastLastWins(
                  Tail(items),
                  [k \in 1..Len(forecast) |->
                      IF forecast[k].date = DateStr(item.dt) /\ item.shape = "ok"
                      THEN ForecastEntry(item) ELSE forecast[k]],
                  seen_dates)

\* for item in weather_data['list']: the list built, or the KeyError met
RECURSIVE CollectForecast(_, _, _)
CollectForecast(items, forecast, seen_dates) ==
    IF items = <<>> THEN [raised |-> FALSE, list |-> forecast]
    ELSE LET item == Head(items) IN
         IF item.shape = "no_dt" THEN [raised |-> TRUE, list |-> forecast]
         ELSE IF DateStr(item.dt) \notin seen_dates /\ Len(forecast) < ForecastCap
         THEN IF item.shape = "no_main" THEN [raised |-> TRUE, list |-> forecast]
              ELSE CollectForecast(Tail(items), Append(forecast, ForecastEntry(item)),
                                   seen_dates \cup {DateStr(item.dt)})
         ELSE CollectForecast(Tail(items), forecast, seen_dates)

\* the body of the try block
WeatherAttempt(cfg, env, city_name, now) ==
    LET fallback == get_fallback_weather(city_name, now) IN
    IF ~cfg.openweather THEN Ret(fallback, <<>>, "no_key")
    ELSE
      LET geo == <<ApiCall("geocode", city_name)>> IN
      IF env.geocode.kind = "exception" THEN Exc("RequestException", geo)
      ELSE IF env.geocode.kind \in {"non200", "empty"} THEN Ret(fallback, geo, "no_geocode")
      ELSE IF env.geocode.kind = "no_lat" THEN Exc("KeyError", geo)
      ELSE
        LET calls == geo \o <<ApiCall("forecast", city_name)>> IN
        IF env.forecast.kind = "exception" THEN Exc("RequestException", calls)
        ELSE IF env.forecast.kind # "ok" THEN Ret(fallback, calls, "non200")
        ELSE
          LET got == CollectForecast(env.forecast.items, <<>>, {}) IN
          IF got.raised THEN Exc("KeyError", calls)
          ELSE IF got.list # <<>> THEN Ret(got.list, calls, "live")
          ELSE Ret(fallback, calls, "no_forecast")

\* get_weather_forecast without its except clause: the exception goes on
WeatherReraise(attempt, city_name, now) == attempt

\* except Exception: return the fallback list
WeatherExcept(attempt, city_name, now) ==
    IF attempt.raised
    THEN Ret(get_fallback_weather(city_name, now), attempt.calls, "except")
    ELSE attempt

get_weather_forecast(cfg, env, city_name, now) ==
    WeatherExcept(WeatherAttempt(cfg, env, city_name, now), city_name, now)

WeatherEnvsOver(cfg, responses) ==
    IF ~cfg.openweather THEN { [geocode |-> Unused, forecast |-> Unused] }
    ELSE UNION { { [geocode |-> g, forecast |-> f] :
                     f \in IF g.kind = "found" THEN responses ELSE {Unused} } :
                 g \in GeocodeResponses }

WeatherEnvs(cfg) == WeatherEnvsOver(cfg, ForecastResponses(MaxForecast))

(***************************************************************************)
(* The pipelines called on their own                                       *)
(***************************************************************************)
Configs == [amadeus : BOOLEAN, openweather : BOOLEAN]

NoEnv == [flights |-> Unused, hotels |-> Unused, weather |-> Unused]

Today == <<2024, 2, 27>>

PipelineCall(fn) ==
    [fn |-> fn, origin |-> <<"New York">>, city |-> <<"Tokyo">>,
     departure_date |-> <<2024, 2, 28>>, return_date |-> <<2024, 3, 6>>,
     now |-> Today]

InitPipelines ==
    /\ config \in Configs
    /\ \/ /\ config.openweather
          /\ call = PipelineCall("search_flights")
          /\ \E e \in FlightEnvs(config) : upstream = [NoEnv EXCEPT !.flights = e]
       \/ /\ config.openweather
          /\ call = PipelineCall("search_hotels")
          /\ \E e \in HotelEnvs(config) : upstream = [NoEnv EXCEPT !.hotels = e]
       \/ /\ config.amadeus
          /\ call = PipelineCall("get_weather_forecast")
          /\ \E e \in WeatherEnvs(config) : upstream = [NoEnv EXCEPT !.weather = e]
    /\ draft = NotRun
    /\ flights_data = NotRun
    /\ hotels_data = NotRun
    /\ weather_data = NotRun
    /\ response = NotRun
    /\ steps = <<>>

SearchFlights ==
    /\ call.fn = "search_flights"
    /\ flights_data = NotRun
    /\ flights_data' = search_flights(config, upstream.flights, call.origin, call.city,
                                      call.departure_date, call.return_date)
    /\ UNCHANGED <<call, config, upstream, draft, hotels_data, weather_data, response, steps>>

SearchHotels ==
    /\ call.fn = "search_hotels"
    /\ hotels_data = NotRun
    /\ hotels_data' = search_hotels(config, upstream.hotels, call.city,
                                    call.departure_date, call.return_date)
    /\ UNCHANGED <<call, config, upstream, draft, flights_data, weather_data, response, steps>>

GetWeatherForecast ==
    /\ call.fn = "get_weather_forecast"
    /\ weather_data = NotRun
    /\ weather_data' = get_weather_forecast(config, upstream.weather, call.city, call.now)
    /\ UNCHANGED <<call, config, upstream, draft, flights_data, hotels_data, response, steps>>

NextPipelines == SearchFlights \/ SearchHotels \/ GetWeatherForecast

SpecPipelines == InitPipelines /\ [][NextPipelines]_vars

(***************************************************************************)
(* Texts handed to clean_and_parse_response                                *)
(***************************************************************************)
MaxMembers == 2
MaxFreeLen == 3

\* json.dumps(v): the well-formed text of a value, no trailing commas
RECURSIVE Dumps(_), DumpsMembers(_), DumpsElements(_)
Dumps(v) ==
    IF v.t = "str" THEN <<DQ>> \o v.s \o <<DQ>>
    ELSE IF v.t = "num" THEN v.s
    ELSE IF v.t = "null" THEN <<NULLWORD>>
    ELSE IF v.t = "obj" THEN <<LB>> \o DumpsMembers(v.m) \o <<RB>>
    ELSE <<LS>> \o DumpsElements(v.a) \o <<RS>>

DumpsMembers(m) ==
    IF m = {} THEN <<>>
    ELSE LET p == CHOOSE q \in m : TRUE
             rest == m \ {p}
         IN  <<DQ>> \o p[1] \o <<DQ, CL, WS>> \o Dumps(p[2])
               \o (IF rest = {} THEN <<>> ELSE <<CM, WS>> \o DumpsMembers(rest))

DumpsElements(a) ==
    IF a = <<>> THEN <<>>
    ELSE Dumps(Head(a))
           \o (IF Tail(a) = <<>> THEN <<>> ELSE <<CM, WS>> \o DumpsElements(Tail(a)))

\* values a generated object may hold
PlainValues ==
    { JStr(<<"Tokyo", CM, WS, "Japan">>),
      JNum(<<DIGIT>>),
      JNull,
      JArr(<<JNum(<<DIGIT>>)>>),
      JObj({<<K("Total"), JStr(<<"$900">>)>>}) }

\* string values holding a comma before a closer, or a fence marker
TrickyValues ==
    { JStr(<<"x", CM, RB>>),
      JStr(<<"a", FENCE, WS, "b">>) }

ObjectValues == PlainValues \cup TrickyValues

ObjectKeys == { K("destination"), K("itinerary"), K("a") }

IsDict(m) == \A p \in m : \A q \in m : p[1] = q[1] => p = q

EmbeddedObjects(max) ==
    { JObj(m) : m \in { n \in SUBSET (ObjectKeys \X ObjectValues) :
                          Cardinality(n) <= max /\ IsDict(n) } }

Prefixes == { <<>>, <<"Here", WS>>, <<LB, WS>>, <<RB, WS>> }
Suffixes == { <<>>, <<WS, "Enjoy">>, <<WS, RB>>, <<WS, LB>> }
FenceStyles == { "none", "json", "plain" }

OpenFence(style) ==
    IF style = "json" THEN <<FENCE, JSONTAG, WS>>
    ELSE IF style = "plain" THEN <<FENCE, WS>>
    ELSE <<>>

CloseFence(style) == IF style = "none" THEN <<>> ELSE <<WS, FENCE>>

\* a trailing comma before the closing brace of the object
WithTrailingComma(body) == SubSeq(body, 1, Len(body) - 1) \o <<CM, RB>>

\* the object text cut before its closing brace
Truncated(body) == SubSeq(body, 1, Len(body) - 1)

Defects == { "none", "trailing_comma", "truncated" }

BodyText(obj, defect) ==
    IF defect = "trailing_comma" THEN WithTrailingComma(Dumps(obj))
    ELSE IF defect = "truncated" THEN Truncated(Dumps(obj))
    ELSE Dumps(obj)

Completion(pre, style, obj, defect, suf) ==
    pre \o OpenFence(style) \o BodyText(obj, defect) \o CloseFence(style) \o suf

Str(toks) == [isStr |-> TRUE, toks |-> toks]
NonString == [isStr |-> FALSE, toks |-> <<>>]

FreeAlphabet == { LB, RB, LS, RS, CM, CL, DQ, WS, "a", DIGIT }

\* word lexemes are maximal runs: no two of them are adjacent
NoAdjacentWords(t) ==
    \A i \in 1..(Len(t) - 1) : ~(IsWord(t[i]) /\ IsWord(t[i + 1]))

FreeTexts(max) ==
    { t \in UNION { [1..n -> FreeAlphabet] : n \in 0..max } :
        NoAdjacentWords(t) }

NoOrigin == [kind |-> "free", obj |-> JNull, pre |-> <<>>, style |-> "none",
             defect |-> "none", suf |-> <<>>]

NormalizerCall(text, origin) ==
    [fn |-> "clean_and_parse_response", text |-> text, origin |-> origin]

NormalizerCalls(members, len) ==
    { NormalizerCall(Str(t), NoOrigin) : t \in FreeTexts(len) }
    \cup { NormalizerCall(NonString, [NoOrigin EXCEPT !.kind = "non_string"]) }
    \cup { NormalizerCall(Str(Completion(pre, st, o, d, suf)),
                          [kind |-> "embedded", obj |-> o, pre |-> pre,
                           style |-> st, defect |-> d, suf |-> suf]) :
             pre \in Prefixes, st \in FenceStyles, o \in EmbeddedObjects(members),
             d \in Defects, suf \in Suffixes }

NoConfig == [amadeus |-> FALSE, openweather |-> FALSE]

InitNormalizer ==
    /\ call \in NormalizerCalls(MaxMembers, MaxFreeLen)
    /\ config = NoConfig
    /\ upstream = NotRun
    /\ draft = NotRun
    /\ flights_data = NotRun
    /\ hotels_data = NotRun
    /\ weather_data = NotRun
    /\ response = NotRun
    /\ steps = <<>>

CleanAndParse ==
    /\ call.fn = "clean_and_parse_response"
    /\ draft = NotRun
    /\ draft' = clean_and_parse_response(call.text)
    /\ UNCHANGED <<call, config, upstream, flights_data, hotels_data,
                   weather_data, response, steps>>

NextNormalizer == CleanAndParse

SpecNormalizer == InitNormalizer /\ [][NextNormalizer]_vars

(***************************************************************************)
(* The request flows: generate_itinerary and surprise_destination          *)
(***************************************************************************)
FormFields ==
    { "mood", "budget", "duration", "travel_style", "origin_city",
      "travel_means", "hotel_preference", "departure_date" }

DigitValue(c) ==
    IF c = "0" THEN 0 ELSE IF c = "1" THEN 1 ELSE IF c = "2" THEN 2
    ELSE IF c = "3" THEN 3 ELSE IF c = "4" THEN 4 ELSE IF c = "5" THEN 5
    ELSE IF c = "6" THEN 6 ELSE IF c = "7" THEN 7 ELSE IF c = "8" THEN 8
    ELSE 9

IsDigit(c) == c \in {"0", "1", "2", "3", "4", "5", "6", "7", "8", "9"}

RECURSIVE DecimalValue(_)
DecimalValue(cs) ==
    IF cs = <<>> THEN 0
    ELSE 10 * DecimalValue(SubSeq(cs, 1, Len(cs) - 1)) + DigitValue(cs[Len(cs)])

\* s.strip(): leading and trailing whitespace removed
RECURSIVE Strip(_)
Strip(cs) ==
    IF cs # <<>> /\ Head(cs) = WS THEN Strip(Tail(cs))
    ELSE IF cs # <<>> /\ cs[Len(cs)] = WS THEN Strip(SubSeq(cs, 1, Len(cs) - 1))
    ELSE cs

\* int(s) on a string of characters: ValueError unless an optionally signed
\* run of digits, whitespace around it allowed
PyInt(cs) ==
    LET body == Strip(cs)
        signed == body # <<>> /\ Head(body) \in {"-", "+"}
        digits == IF signed THEN Tail(body) ELSE body
    IN  IF digits # <<>> /\ \A i \in 1..Len(digits) : IsDigit(digits[i])
        THEN [ok |-> TRUE,
              value |-> IF signed /\ Head(body) = "-" THEN 0 - DecimalValue(digits)
                        ELSE DecimalValue(digits)]
        ELSE [ok |-> FALSE, value |-> 0]

\* datetime.strptime(s, '%Y-%m-%d'): ValueError unless s has the three fields
\* and they name a day of the calendar
Strptime(s) ==
    IF s.wellformed /\ s.ymd[2] \in 1..12
         /\ s.ymd[3] \in 1..DaysInMonth(s.ymd[1], s.ymd[2])
    THEN [ok |-> TRUE, date |-> s.ymd]
    ELSE [ok |-> FALSE, date |-> s.ymd]

\* destination.split(',')[0]
BeforeFirstComma(cs) ==
    IF Positions(cs, CM) = {} THEN cs ELSE SubSeq(cs, 1, Min(Positions(cs, CM)) - 1)

CityOf(destination) == Strip(BeforeFirstComma(destination))

surprise_destinations ==
    << <<"Kyoto", CM, WS, "Japan">>,
       <<"Santorini", CM, WS, "Greece">>,
       <<"Reykjavik", CM, WS, "Iceland">>,
       <<"Marrakech", CM, WS, "Morocco">>,
       <<"Bali", CM, WS, "Indonesia">>,
       <<"Cape", WS, "Town", CM, WS, "South", WS, "Africa">>,
       <<"Prague", CM, WS, "Czech", WS, "Republic">>,
       <<"Queenstown", CM, WS, "New", WS, "Zealand">>,
       <<"Dubrovnik", CM, WS, "Croatia">>,
       <<"Banff", CM, WS, "Canada">> >>

\* what a flow leaves behind: the handler's answer and the calls it got to
FlowResult(resp, d, f, h, w, s) ==
    [response |-> resp, draft |-> d, flights |-> f, hotels |-> h, weather |-> w,
     steps |-> s]

\* one call of the handler, with the arguments it passes
Step(op, args) == [op |-> op, args |-> args]

\* model.generate_content(prompt), then clean_and_parse_response(response.text)
Drafting == <<Step("generate_content", <<>>), Step("clean_and_parse_response", <<>>)>>

Answer(status, body) == [raised |-> FALSE, status |-> status, body |-> body]
Escaped(exc) == [raised |-> TRUE, status |-> 0, body |-> [exception |-> exc]]

\* response_data of both flows, through jsonify
ResponseData(destination, description, itinerary_data, flights, hotels, weather) ==
    [success |-> TRUE,
     destination |-> destination,
     description |-> description,
     itinerary |-> DictGet(itinerary_data.m, K("itinerary"),
                           JStr(<<"Itinerary not available">>)),
     cuisine |-> DictGet(itinerary_data.m, K("cuisine"),
                         JStr(<<"Local cuisine information not available">>)),
     estimated_cost |-> DictGet(itinerary_data.m, K("estimated_cost"), JObj({})),
     best_time_to_visit |-> DictGet(itinerary_data.m, K("best_time_to_visit"),
                                    JStr(<<"Year-round destination">>)),
     packing_tips |-> DictGet(itinerary_data.m, K("packing_tips"),
                              JStr(<<"Pack according to season">>)),
     flight_options |-> flights.value,
     hotel_options |-> hotels.value,
     weather_forecast |-> weather.value]

\* an aggregation in which the pipelines are not independent: once the
\* flight search has fallen back, hotels and weather are not asked for
AggregateGivingUp(cfg, env, destination, description, itinerary_data, d, origin, dep, ret, now) ==
    LET city_name == CityOf(destination.s)
        flights == search_flights(cfg, env.flights, origin, city_name, dep, ret)
        hotels == IF flights.path = "live"
                  THEN search_hotels(cfg, env.hotels, city_name, dep, ret)
                  ELSE Ret(get_fallback_hotels(city_name), <<>>, "except")
        weather == IF flights.path = "live"
                   THEN get_weather_forecast(cfg, env.weather, city_name, now)
                   ELSE Ret(get_fallback_weather(city_name, now), <<>>, "except")
    IN  FlowResult(Answer(200, ResponseData(destination, description, itinerary_data,
                                            flights, hotels, weather)),
                   d, flights, hotels, weather,
                   Drafting \o << Step("search_flights", <<origin, city_name, dep, ret>>),
                                  Step("search_hotels", <<city_name, dep, ret>>),
                                  Step("get_weather_forecast", <<city_name, dep, ret>>) >>)

\* the statements of the try block after the draft is there, shared by both
\* flows: the three pipelines in turn, then the response
Aggregate(cfg, env, destination, description, itinerary_data, d, origin, dep, ret, now) ==
    LET city_name == CityOf(destination.s)
        flights == search_flights(cfg, env.flights, origin, city_name, dep, ret)
        hotels == search_hotels(cfg, env.hotels, city_name, dep, ret)
        weather == get_weather_forecast(cfg, env.weather, city_name, now)
    IN  FlowResult(Answer(200, ResponseData(destination, description, itinerary_data,
                                            flights, hotels, weather)),
                   d, flights, hotels, weather,
                   Drafting \o << Step("search_flights", <<origin, city_name, dep, ret>>),
                                  Step("search_hotels", <<city_name, dep, ret>>),
                                  Step("get_weather_forecast", <<city_name, dep, ret>>) >>)

\* a try block that counts the day of departure as the first day of the trip
ItineraryInclusiveDays(cfg, form, gen, env, now) ==
    IF form.missing # "none" THEN FlowResult(Escaped("BadRequestKeyError"),
                                             NotRun, NotRun, NotRun, NotRun, <<>>)
    ELSE IF gen.kind # "text" THEN FlowResult(Escaped("GeneratorError"),
                                              NotRun, NotRun, NotRun, NotRun,
                                              <<Step("generate_content", <<>>)>>)
    ELSE
      LET d == clean_and_parse_response(Str(gen.text))
          itinerary_data == d.value
          destination == DictGet(itinerary_data.m, K("destination"),
                                 JStr(<<"Unknown Destination">>))
          departure_date == Strptime(form.departure_date)
          duration == PyInt(form.duration)
      IN
      IF d.raised THEN FlowResult(Escaped(d.exc), d, NotRun, NotRun, NotRun, Drafting)
      ELSE IF destination.t # "str"
      THEN FlowResult(Escaped("AttributeError"), d, NotRun, NotRun, NotRun, Drafting)
      ELSE IF ~departure_date.ok \/ ~duration.ok
      THEN FlowResult(Escaped("ValueError"), d, NotRun, NotRun, NotRun, Drafting)
      ELSE Aggregate(cfg, env, destination,
                     <<"Your perfect", form.mood, "getaway awaits!">>,
                     itinerary_data, d, form.origin_city, form.departure_date.ymd,
                     AddDays(departure_date.date, duration.value - 1), now)

\* a try block that checks duration and departure_date as soon as the form
\* is read, before the text generator is asked
ItineraryValidatesFirst(cfg, form, gen, env, now) ==
    LET departure_date == Strptime(form.departure_date)
        duration == PyInt(form.duration)
    IN
    IF form.missing # "none" THEN FlowResult(Escaped("BadRequestKeyError"),
                                             NotRun, NotRun, NotRun, NotRun, <<>>)
    ELSE IF ~departure_date.ok \/ ~duration.ok
    THEN FlowResult(Escaped("ValueError"), NotRun, NotRun, NotRun, NotRun, <<>>)
    ELSE IF gen.kind # "text" THEN FlowResult(Escaped("GeneratorError"),
                                              NotRun, NotRun, NotRun, NotRun,
                                              <<Step("generate_content", <<>>)>>)
    ELSE
      LET d == clean_and_parse_response(Str(gen.text))
          itinerary_data == d.value
          destination == DictGet(itinerary_data.m, K("destination"),
                                 JStr(<<"Unknown Destination">>))
      IN
      IF d.raised THEN FlowResult(Escaped(d.exc), d, NotRun, NotRun, NotRun, Drafting)
      ELSE IF destination.t # "str"
      THEN FlowResult(Escaped("AttributeError"), d, NotRun, NotRun, NotRun, Drafting)
      ELSE Aggregate(cfg, env, destination,
                     <<"Your perfect", form.mood, "getaway awaits!">>,
                     itinerary_data, d, form.origin_city, form.departure_date.ymd,
                     AddDays(departure_date.date, duration.value), now)

\* the try block of generate_itinerary: the answer, or the exception met
ItineraryAttempt(cfg, form, gen, env, now) ==
    IF form.missing # "none" THEN FlowResult(Escaped("BadRequestKeyError"),
                                             NotRun, NotRun, NotRun, NotRun, <<>>)
    ELSE IF gen.kind # "text" THEN FlowResult(Escaped("GeneratorError"),
                                              NotRun, NotRun, NotRun, NotRun,
                                              <<Step("generate_content", <<>>)>>)
    ELSE
      LET d == clean_and_parse_response(Str(gen.text))
          itinerary_data == d.value
          destination == DictGet(itinerary_data.m, K("destination"),
                                 JStr(<<"Unknown Destination">>))
          departure_date == Strptime(form.departure_date)
          duration == PyInt(form.duration)
      IN
      IF d.raised THEN FlowResult(Escaped(d.exc), d, NotRun, NotRun, NotRun, Drafting)
      ELSE IF destination.t # "str"
      THEN FlowResult(Escaped("AttributeError"), d, NotRun, NotRun, NotRun, Drafting)
      ELSE IF ~departure_date.ok \/ ~duration.ok
      THEN FlowResult(Escaped("ValueError"), d, NotRun, NotRun, NotRun, Drafting)
      ELSE Aggregate(cfg, env, destination,
                     <<"Your perfect", form.mood, "getaway awaits!">>,
                     itinerary_data, d, form.origin_city, form.departure_date.ymd,
                     AddDays(departure_date.date, duration.value), now)

\* generate_itinerary without its except clause: the exception goes on
ItineraryNoExcept(attempt) == attempt

\* except Exception of generate_itinerary
ItineraryExcept(attempt) ==
    IF attempt.response.raised
    THEN [attempt EXCEPT !.response =
            Answer(500, [success |-> FALSE,
                         error |-> <<"Error generating itinerary:",
                                     attempt.response.body.exception>>])]
    ELSE attempt

generate_itinerary(cfg, form, gen, env, now) ==
    ItineraryExcept(ItineraryAttempt(cfg, form, gen, env, now))

\* the try block of surprise_destination; pick is what random.choice draws
SurpriseAttempt(cfg, pick, gen, env, now) ==
    LET random_destination == surprise_destinations[pick] IN
    IF gen.kind # "text" THEN FlowResult(Escaped("GeneratorError"),
                                         NotRun, NotRun, NotRun, NotRun,
                                         <<Step("generate_content", <<>>)>>)
    ELSE
      LET d == clean_and_parse_response(Str(gen.text))
          itinerary_data == d.value
          destination == DictGet(itinerary_data.m, K("destination"),
                                 JStr(random_destination))
      IN
      IF d.raised THEN FlowResult(Escaped(d.exc), d, NotRun, NotRun, NotRun, Drafting)
      ELSE IF destination.t # "str"
      THEN FlowResult(Escaped("AttributeError"), d, NotRun, NotRun, NotRun, Drafting)
      ELSE Aggregate(cfg, env, destination,
                     <<"Surprise! Your next adventure awaits in">>
                        \o destination.s \o <<"!">>,
                     itinerary_data, d, <<"New York">>, AddDays(now, 1),
                     AddDays(now, 6), now)

\* except Exception of surprise_destination
SurpriseExcept(attempt) ==
    IF attempt.response.raised
    THEN [attempt EXCEPT !.response =
            Answer(500, [success |-> FALSE,
                         error |-> <<"An internal error occurred while generating the surprise destination.">>])]
    ELSE attempt

surprise_destination(cfg, pick, gen, env, now) ==
    SurpriseExcept(SurpriseAttempt(cfg, pick, gen, env, now))

(***************************************************************************)
(* Requests, generator answers and providers of the flows                  *)
(***************************************************************************)
BaseForm ==
    [missing |-> "none", mood |-> "relaxing", origin_city |-> <<"London">>,
     duration |-> <<"7">>,
     departure_date |-> [wellformed |-> TRUE, ymd |-> <<2024, 3, 1>>]]

Forms ==
    { BaseForm }
    \cup { [BaseForm EXCEPT !.missing = f] : f \in FormFields }
    \cup { [BaseForm EXCEPT !.duration = d] :
             d \in { <<"1", "0">>, <<WS, "3">>, <<"-", "1">>, <<"x">>, <<>> } }
    \cup { [BaseForm EXCEPT !.departure_date = d] :
             d \in { [wellformed |-> TRUE, ymd |-> <<2024, 1, 1>>],
                     [wellformed |-> TRUE, ymd |-> <<2024, 12, 30>>],
                     [wellformed |-> TRUE, ymd |-> <<2024, 2, 30>>],
                     [wellformed |-> TRUE, ymd |-> <<2024, 13, 1>>],
                     [wellformed |-> FALSE, ymd |-> <<0, 0, 0>>] } }
    \cup { [BaseForm EXCEPT !.missing = "mood", !.duration = <<"x">>],
           [BaseForm EXCEPT !.missing = "hotel_preference",
                            !.departure_date = [wellformed |-> FALSE,
                                                ymd |-> <<0, 0, 0>>]] }

\* a draft with every field the prompt asks for
FullDraft(destination) ==
    JObj({ <<K("destination"), JStr(destination)>>,
           <<K("itinerary"), JStr(<<"Day", WS, "1">>)>>,
           <<K("cuisine"), JStr(<<"Ramen">>)>>,
           <<K("fun_fact"), JStr(<<"Fact">>)>>,
           <<K("estimated_cost"), JObj({<<K("Total"), JStr(<<"$900">>)>>})>>,
           <<K("best_time_to_visit"), JStr(<<"Spring">>)>>,
           <<K("packing_tips"), JStr(<<"Umbrella">>)>> })

Tokyo == <<"Tokyo", CM, WS, "Japan">>

\* what model.generate_content(prompt).text may hold
GeneratedTexts ==
    { Completion(<<>>, "json", FullDraft(Tokyo), "none", <<>>),
      Completion(<<"Here", WS>>, "none", FullDraft(Tokyo), "trailing_comma", <<>>),
      Completion(<<>>, "none", FullDraft(Tokyo), "truncated", <<>>),
      Completion(<<>>, "none", FullDraft(<<"Tokyo">>), "none", <<>>),
      <<"I", WS, "cannot", WS, "help">>,
      Dumps(JObj({})),
      Dumps(JObj({<<K("itinerary"), JStr(<<"Day", WS, "1">>)>>})),
      Dumps(JObj({<<K("destination"), JNull>>})),
      Dumps(JObj({<<K("destination"), JNum(<<DIGIT>>)>>})) }

\* the answers of the generator: a text, or generate_content / .text raising
Generations(texts) ==
    { [kind |-> "text", text |-> t] : t \in texts }
    \cup { [kind |-> "error", text |-> <<>>] }

FlowConfigs ==
    { [amadeus |-> TRUE, openweather |-> TRUE],
      [amadeus |-> FALSE, openweather |-> FALSE] }

GoodToken(t) == t = Unused \/ (t.kind = "ok" /\ t.token = "tok")

FlowFlightEnvs(cfg) ==
    { e \in FlightEnvsOver(cfg,
              { [kind |-> "ok", offers |-> <<"direct">>, carrier |-> <<"Air Example">>],
                [kind |-> "non200", offers |-> <<>>, carrier |-> <<>>] }) :
        /\ GoodToken(e.tok) \/ e.tok.kind = "non200"
        /\ GoodToken(e.origin.tok) /\ GoodToken(e.dest.tok)
        /\ e.origin.lookup = Unused \/ e.origin.lookup.kind = "found"
        /\ e.dest.lookup = Unused \/ e.dest.lookup.kind \in {"found", "empty"} }

FlowHotelEnvs(cfg) ==
    { e \in HotelEnvsOver(cfg,
              { [kind |-> "ok", hotels |-> <<"id", "id">>] },
              { [kind |-> "offer", name |-> <<"Grand Hotel">>],
                [kind |-> "non200", name |-> <<>>] }) :
        /\ GoodToken(e.tok) \/ e.tok.kind = "exception"
        /\ GoodToken(e.city.tok)
        /\ e.city.lookup = Unused \/ e.city.lookup.kind = "found" }

FlowWeatherEnvs(cfg) ==
    { e \in WeatherEnvsOver(cfg,
              { [kind |-> "ok",
                 items |-> <<ForecastItem(1, 0, "ok"), ForecastItem(2, 0, "ok"),
                             ForecastItem(3, 1, "ok")>>],
                [kind |-> "exception", items |-> <<>>] }) :
        e.geocode = Unused \/ e.geocode.kind \in {"found", "empty"} }

FlowEnvs(cfg) ==
    { [flights |-> f, hotels |-> h, weather |-> w] :
        f \in FlowFlightEnvs(cfg), h \in FlowHotelEnvs(cfg), w \in FlowWeatherEnvs(cfg) }

Picks == 1..Len(surprise_destinations)

FlowCalls ==
    { [fn |-> "generate_itinerary", form |-> f, gen |-> g, pick |-> 1, now |-> Today] :
        f \in Forms, g \in Generations(GeneratedTexts) }
    \cup UNION { { [fn |-> "surprise_destination", form |-> BaseForm, gen |-> g,
                    pick |-> p, now |-> Today] :
                     g \in Generations(GeneratedTexts
                             \cup { Completion(<<>>, "json",
                                               FullDraft(surprise_destinations[p]),
                                               "none", <<>>) }) } :
                 p \in Picks }

Init ==
    /\ call \in FlowCalls
    /\ config \in FlowConfigs
    /\ upstream \in FlowEnvs(config)
    /\ draft = NotRun
    /\ flights_data = NotRun
    /\ hotels_data = NotRun
    /\ weather_data = NotRun
    /\ response = NotRun
    /\ steps = <<>>

Leave(result) ==
    /\ draft' = result.draft
    /\ flights_data' = result.flights
    /\ hotels_data' = result.hotels
    /\ weather_data' = result.weather
    /\ response' = result.response
    /\ steps' = result.steps
    /\ UNCHANGED <<call, config, upstream>>

GenerateItinerary ==
    /\ call.fn = "generate_itinerary"
    /\ response = NotRun
    /\ Leave(generate_itinerary(config, call.form, call.gen, upstream, call.now))

SurpriseDestination ==
    /\ call.fn = "surprise_destination"
    /\ response = NotRun
    /\ Leave(surprise_destination(config, call.pick, call.gen, upstream, call.now))

Next == GenerateItinerary \/ SurpriseDestination

Spec == Init /\ [][Next]_vars

(***************************************************************************)
(* Properties of clean_and_parse_response (SpecNormalizer)                 *)
(***************************************************************************)
\* the text after both fence substitutions
Unfenced(text) == StripFence(StripJsonFence(text.toks))

NormalizerDone == call.fn = "clean_and_parse_response" /\ draft # NotRun

\* the three failure paths, read off the input
NotAString == ~call.text.isStr
NoSpan == call.text.isStr /\ ~HasJsonMatch(Unfenced(call.text))
SpanDoesNotParse ==
    /\ call.text.isStr
    /\ HasJsonMatch(Unfenced(call.text))
    /\ ~json_loads(RemoveTrailingCommas(JsonMatch(Unfenced(call.text)))).ok

\* C1: clean_and_parse_response returns for every input, a non-string
\* included, and never raises; when the text has no '{'...'}' span, or the
\* repaired span does not parse, or another error occurs, it returns the
\* default draft with destination "Paris, France", the same draft on all
\* three paths.
C1_NeverRaisesDefaultOnFailure ==
    NormalizerDone =>
        /\ ~draft.raised
        /\ (NotAString \/ NoSpan \/ SpanDoesNotParse) =>
              /\ draft.value = NoJsonDraft
              /\ draft.value = DecodeErrorDraft
              /\ draft.value = GeneralErrorDraft
              /\ DictGet(draft.value.m, K("destination"), JNull)
                   = JStr(<<"Paris", CM, WS, "France">>)

\* a span was found and did not parse: the default draft came back
C1_DecodeErrorSeen ==
    /\ NormalizerDone
    /\ SpanDoesNotParse
    /\ draft.path = "decode_error"
    /\ draft.value = DecodeErrorDraft

\* C2 as stated: the returned object always has all seven draft fields.
C2_AllFieldsAlwaysPresent ==
    NormalizerDone => DraftFields \subseteq DictKeys(draft.value.m)

\* C2, amended: the seven draft fields are all present whenever the default
\* draft is returned (no span, span that does not parse, other error); when
\* the span parses, the parsed object is returned as it is, with the keys
\* the text gives it and no others: missing fields are not filled in.
C2_FieldsPresentOnlyOnDefault ==
    NormalizerDone =>
        /\ draft.path # "parsed" => DraftFields \subseteq DictKeys(draft.value.m)
        /\ draft.path = "parsed" =>
              /\ draft.value =
                   json_loads(RemoveTrailingCommas(JsonMatch(Unfenced(call.text)))).v
              /\ call.origin.kind = "embedded" =>
                    DictKeys(draft.value.m) = DictKeys(call.origin.obj.m)

\* a well-formed object without some draft fields came back without them
C2_ParsedObjectLacksFields ==
    /\ NormalizerDone
    /\ call.origin.kind = "embedded"
    /\ call.origin.defect = "none"
    /\ draft.path = "parsed"
    /\ draft.value = call.origin.obj
    /\ ~(DraftFields \subseteq DictKeys(draft.value.m))

\* C3 as stated: a well-formed object without trailing commas embedded in a
\* completion (prose around it, braces in the prose included, fenced or not,
\* string values with a comma before a closer or with a fence marker
\* included) is returned exactly.
C3_RoundTrip ==
    (NormalizerDone /\ call.origin.kind = "embedded" /\ call.origin.defect = "none")
        => draft.value = call.origin.obj

\* the object {"a": "x,}"} alone, returned with the comma of its string gone
C3_CommaInStringLost ==
    /\ NormalizerDone
    /\ call.text = Str(Dumps(JObj({<<K("a"), JStr(<<"x", CM, RB>>)>>})))
    /\ draft.path = "parsed"
    /\ draft.value = JObj({<<K("a"), JStr(<<"x", RB>>)>>})

\* the text handed to the normalizer is valid JSON as it stands
ValidJsonText == call.text.isStr /\ json_loads(call.text.toks).ok

\* the trailing-comma repair of line 51 applied to the whole text
Repaired(text) == RemoveTrailingCommas(text.toks)

\* C11: the trailing-comma repair leaves every already-valid JSON text, and
\* so the value parsed from it, unchanged, also when a string value holds a
\* comma followed by ']' or '}'; and repairing twice gives what repairing
\* once gives
C11_RepairIsIdempotent ==
    /\ (NormalizerDone /\ ValidJsonText)
          => /\ Repaired(call.text) = call.text.toks
             /\ json_loads(Repaired(call.text)).v = json_loads(call.text.toks).v
             /\ (call.text.toks[1] = LB => draft.value = json_loads(call.text.toks).v)
    /\ (NormalizerDone /\ call.text.isStr)
          => RemoveTrailingCommas(Repaired(call.text)) = Repaired(call.text)

\* the valid text {"a": "x,}"} is changed by the repair: the comma inside
\* the string value is deleted, and the value parsed afterwards is another
C11_RepairChangesValidJson ==
    /\ NormalizerDone
    /\ ValidJsonText
    /\ json_loads(call.text.toks).v = JObj({<<K("a"), JStr(<<"x", CM, RB>>)>>})
    /\ Repaired(call.text) # call.text.toks
    /\ json_loads(Repaired(call.text)).v = JObj({<<K("a"), JStr(<<"x", RB>>)>>})
    /\ draft.value # json_loads(call.text.toks).v

(***************************************************************************)
(* Properties of the three pipelines (SpecPipelines)                       *)
(***************************************************************************)
FlightsDone == call.fn = "search_flights" /\ flights_data # NotRun
HotelsDone == call.fn = "search_hotels" /\ hotels_data # NotRun
WeatherDone == call.fn = "get_weather_forecast" /\ weather_data # NotRun

\* the token step gives no token: no credentials, a non-success status, a
\* body without a token, or an exception
TokenFails(cfg, t) == ~cfg.amadeus \/ t.kind # "ok" \/ t.token = None

\* the city lookup gives no code
CityFails(cfg, c) == TokenFails(cfg, c.tok) \/ c.lookup.kind # "found"

\* a stage of the flight chain fails, read off what the providers answer
FlightsStageFails(cfg, env) ==
    \/ TokenFails(cfg, env.tok)
    \/ CityFails(cfg, env.origin)
    \/ CityFails(cfg, env.dest)
    \/ env.search.kind # "ok"
    \/ env.search.offers = <<>>
    \/ \E i \in 1..Len(env.search.offers) : i <= 3 /\ env.search.offers[i] = "no_price"

\* the hotel chain fails before the offer requests
HotelsListingFails(cfg, env) ==
    \/ TokenFails(cfg, env.tok)
    \/ CityFails(cfg, env.city)
    \/ env.list.kind # "ok"
    \/ env.list.hotels = <<>>
    \/ \E i \in 1..Len(env.list.hotels) : i <= 5 /\ env.list.hotels[i] = "no_id"

\* an offer request raises, or no candidate has an offer
HotelsOffersFail(env) ==
    \/ \E i \in 1..Len(env.offers) : env.offers[i].kind = "exception"
    \/ \A i \in 1..Len(env.offers) : env.offers[i].kind # "offer"

\* an offer request of one candidate answers with a non-success status or
\* with no offers
SomeCandidateWithoutOffer(env) ==
    \E i \in 1..Len(env.offers) : env.offers[i].kind \in {"non200", "no_offers"}

\* the dates of the items before the i-th
DatesBefore(items, i) == { DateStr(items[j].dt) : j \in 1..(i - 1) }

\* the i-th item is the first of its date, among the first five dates
FirstOfItsDate(items, i) ==
    /\ DateStr(items[i].dt) \notin DatesBefore(items, i)
    /\ Cardinality(DatesBefore(items, i)) < 5

\* a stage of the weather chain fails
WeatherStageFails(cfg, env) ==
    \/ ~cfg.openweather
    \/ env.geocode.kind # "found"
    \/ env.forecast.kind # "ok"
    \/ env.forecast.items = <<>>
    \/ \E i \in 1..Len(env.forecast.items) :
          \/ env.forecast.items[i].shape = "no_dt"
          \/ env.forecast.items[i].shape = "no_main"
               /\ FirstOfItsDate(env.forecast.items, i)

AllMarked(list, field, marker) ==
    \A i \in 1..Len(list) : HasMarker(list[i][field], marker)

NoneMarked(list, field, marker) ==
    \A i \in 1..Len(list) : ~HasMarker(list[i][field], marker)

FlightsFallback ==
    /\ flights_data.value = get_fallback_flights(call.origin, call.city,
                                                 call.departure_date, call.return_date)
    /\ Len(flights_data.value) = 3
    /\ AllMarked(flights_data.value, "note", "(Fallback Data)")

HotelsFallback ==
    /\ hotels_data.value = get_fallback_hotels(call.city)
    /\ Len(hotels_data.value) = 3
    /\ AllMarked(hotels_data.value, "amenities", "(Fallback Data)")

WeatherFallback ==
    /\ weather_data.value = get_fallback_weather(call.city, call.now)
    /\ Len(weather_data.value) = 5
    /\ AllMarked(weather_data.value, "description", "(Fallback)")

\* C4 as stated: in each pipeline, a missing prerequisite, a call with a
\* non-success status, an empty result set or an exception at any stage gives
\* exactly the fallback list (3 flights, 3 hotels, 5 days of weather, every
\* item marked), and no exception reaches the caller.
C4_AnyFailureGivesFallback ==
    /\ FlightsDone =>
          /\ ~flights_data.raised
          /\ FlightsStageFails(config, upstream.flights) => FlightsFallback
    /\ HotelsDone =>
          /\ ~hotels_data.raised
          /\ (\/ HotelsListingFails(config, upstream.hotels)
              \/ HotelsOffersFail(upstream.hotels)
              \/ SomeCandidateWithoutOffer(upstream.hotels)) => HotelsFallback
    /\ WeatherDone =>
          /\ ~weather_data.raised
          /\ WeatherStageFails(config, upstream.weather) => WeatherFallback

\* C4, amended: as stated, except that the offer request of one hotel
\* candidate answering with a non-success status or with no offers only
\* leaves that candidate out; the hotel fallback list is returned when the
\* chain fails before the offer requests, when an offer request raises, or
\* when no candidate has an offer.
C4_FailureGivesFallback ==
    /\ FlightsDone =>
          /\ ~flights_data.raised
          /\ FlightsStageFails(config, upstream.flights) => FlightsFallback
    /\ HotelsDone =>
          /\ ~hotels_data.raised
          /\ (\/ HotelsListingFails(config, upstream.hotels)
              \/ HotelsOffersFail(upstream.hotels)) => HotelsFallback
    /\ WeatherDone =>
          /\ ~weather_data.raised
          /\ WeatherStageFails(config, upstream.weather) => WeatherFallback

\* an offer request raised after another candidate had given an offer: the
\* hotel fallback list came back
C4_LateExceptionGivesFallback ==
    /\ HotelsDone
    /\ \E i \in 1..Len(upstream.hotels.offers) : \E j \in 1..Len(upstream.hotels.offers) :
          /\ i < j
          /\ upstream.hotels.offers[i].kind = "offer"
          /\ upstream.hotels.offers[j].kind = "exception"
    /\ HotelsFallback

\* the indices of the items that are the first of their date, in order
FirstIndices(items) ==
    { i \in 1..Len(items) : DateStr(items[i].dt) \notin DatesBefore(items, i) }

\* the k-th smallest element of a set of indices
KthOf(S, k) == CHOOSE i \in S : Cardinality({ j \in S : j <= i }) = k

\* C7: the live result of get_weather_forecast has at most one entry per
\* calendar date, each entry is built from the first item the list holds for
\* its date, the entries come in first-seen order of the dates, and there
\* are at most 5 of them: the first 5 distinct dates of the list.
C7_WeatherDeduplication ==
    (WeatherDone /\ weather_data.path = "live") =>
        LET items == upstream.weather.forecast.items
            first == FirstIndices(items)
            result == weather_data.value
        IN  /\ Len(result) = IF Cardinality(first) < 5 THEN Cardinality(first) ELSE 5
            /\ \A j \in 1..Len(result) : \A k \in 1..Len(result) :
                  j # k => result[j].date # result[k].date
            /\ \A k \in 1..Len(result) :
                  LET item == items[KthOf(first, k)]
                  IN  /\ result[k].date = DateStr(item.dt)
                      /\ result[k].temperature = PyRound(item.temp)
                      /\ result[k].icon = item.icon

\* a list where the date of the first item comes back after another date:
\* one entry for that date, built from the first item
C7_RepeatedDateKeptOnce ==
    /\ WeatherDone
    /\ weather_data.path = "live"
    /\ LET items == upstream.weather.forecast.items
       IN  /\ \E i \in 1..Len(items) :
                 /\ i > 2
                 /\ DateStr(items[i].dt) = DateStr(items[1].dt)
                 /\ DateStr(items[i - 1].dt) # DateStr(items[1].dt)
           /\ Len(weather_data.value) < Len(items)
           /\ weather_data.value[1].temperature = PyRound(items[1].temp)
           /\ \A k \in 2..Len(weather_data.value) :
                 weather_data.value[k].date # DateStr(items[1].dt)

\* C10: in every list search_flights or search_hotels returns, either every
\* item carries "(Fallback Data)" (flight note, hotel amenities) or none
\* does; an item built from a provider response never carries it, whatever
\* the provider sent; live hotel records have rating "N/A" and fallback
\* hotel records never do.
C10_FallbackDistinguishable ==
    /\ FlightsDone =>
          /\ \/ AllMarked(flights_data.value, "note", "(Fallback Data)")
             \/ NoneMarked(flights_data.value, "note", "(Fallback Data)")
          /\ flights_data.path = "live" =>
                NoneMarked(flights_data.value, "note", "(Fallback Data)")
          /\ flights_data.path # "live" =>
                AllMarked(flights_data.value, "note", "(Fallback Data)")
    /\ HotelsDone =>
          /\ \/ AllMarked(hotels_data.value, "amenities", "(Fallback Data)")
             \/ NoneMarked(hotels_data.value, "amenities", "(Fallback Data)")
          /\ hotels_data.path = "live" =>
                /\ NoneMarked(hotels_data.value, "amenities", "(Fallback Data)")
                /\ \A i \in 1..Len(hotels_data.value) : hotels_data.value[i].rating = "N/A"
          /\ hotels_data.path # "live" =>
                /\ AllMarked(hotels_data.value, "amenities", "(Fallback Data)")
                /\ \A i \in 1..Len(hotels_data.value) : hotels_data.value[i].rating # "N/A"

\* a live hotel whose provider name holds the marker text: amenities
\* unmarked, rating "N/A"
C10_LiveHotelNamedLikeFallback ==
    /\ HotelsDone
    /\ hotels_data.path = "live"
    /\ \E i \in 1..Len(hotels_data.value) :
          /\ HasMarker(hotels_data.value[i].name, "(Fallback Data)")
          /\ ~HasMarker(hotels_data.value[i].amenities, "(Fallback Data)")
          /\ hotels_data.value[i].rating = "N/A"

\* where in the calls of search_flights the requests to one endpoint stand
FlightCallsTo(api) ==
    { k \in 1..Len(flights_data.calls) : flights_data.calls[k].api = api }

\* C14: when the initial token acquisition of search_flights fails, the
\* fallback list is returned with no city-code lookup and no fare search
\* issued; the fare search is issued at most once, as the last request,
\* after the lookups of origin and destination in that order, and only when
\* both gave a code
C14_FlightStepOrder ==
    FlightsDone =>
        /\ TokenFails(config, upstream.flights.tok)
              => /\ FlightsFallback
                 /\ flights_data.path = "no_token"
                 /\ FlightCallsTo("locations") = {}
                 /\ FlightCallsTo("flight-offers") = {}
                 /\ Len(flights_data.calls) <= 1
        /\ Cardinality(FlightCallsTo("flight-offers")) <= 1
        /\ \A k \in FlightCallsTo("flight-offers") :
              /\ k = Len(flights_data.calls)
              /\ flights_data.calls[1].api = "token"
              /\ \E i, j \in 1..(k - 1) :
                    /\ i < j
                    /\ FlightCallsTo("locations") = {i, j}
                    /\ flights_data.calls[i].arg = call.origin
                    /\ flights_data.calls[j].arg = call.city
              /\ ~CityFails(config, upstream.flights.origin)
              /\ ~CityFails(config, upstream.flights.dest)
              /\ flights_data.calls[k].arg = <<upstream.flights.origin.lookup.code,
                                               upstream.flights.dest.lookup.code>>
        /\ (CityFails(config, upstream.flights.origin)
              \/ CityFails(config, upstream.flights.dest))
              => FlightsFallback /\ FlightCallsTo("flight-offers") = {}

\* both lookups give a code and the fare search follows them as the sixth
\* and last request
C14_SearchAfterBothLookups ==
    /\ FlightsDone
    /\ flights_data.path = "live"
    /\ Len(flights_data.calls) = 6
    /\ FlightCallsTo("locations") = {3, 5}
    /\ FlightCallsTo("flight-offers") = {6}

\* the candidates of the hotel listing whose offer request gave an offer
WithOffer(env) == { i \in 1..Len(env.offers) : env.offers[i].kind = "offer" }

\* an item of the loop raises after at least one record has been collected
FlightsRaisePartWay(env) ==
    /\ env.search.kind = "ok"
    /\ \E i \in 2..Len(env.search.offers) :
          /\ i <= OffersTaken
          /\ env.search.offers[i] = "no_price"
          /\ \A j \in 1..(i - 1) : env.search.offers[j] # "no_price"

HotelsRaisePartWay(env) ==
    \E i \in WithOffer(env) : \E j \in 1..Len(env.offers) :
        i < j /\ env.offers[j].kind = "exception"

WeatherRaisesPartWay(env) ==
    /\ env.forecast.kind = "ok"
    /\ \E i \in 2..Len(env.forecast.items) :
          /\ \A j \in 1..(i - 1) : env.forecast.items[j].shape = "ok"
          /\ \/ env.forecast.items[i].shape = "no_dt"
             \/ env.forecast.items[i].shape = "no_main"
                  /\ FirstOfItsDate(env.forecast.items, i)

\* C15: whatever the providers answer, each pipeline returns a non-empty
\* list of bounded length (flights 1 to 3, hotels 1 to 5, weather 1 to 5)
\* that is either the fallback list as a whole or made of live records only,
\* one per usable provider item; an exception raised part-way through the
\* offers, the hotel candidates or the forecast items gives the fallback
\* list, without the records collected before it
C15_AllLiveOrAllFallback ==
    /\ FlightsDone =>
          /\ Len(flights_data.value) \in 1..3
          /\ \/ FlightsFallback /\ flights_data.path # "live"
             \/ /\ flights_data.path = "live"
                /\ LET env == upstream.flights
                       taken == FirstN(env.search.offers, OffersTaken)
                   IN  /\ Len(flights_data.value) = Len(taken)
                       /\ \A k \in 1..Len(taken) :
                             flights_data.value[k] =
                                 FlightRecord(taken[k], env.search.carrier,
                                              env.origin.lookup.code, env.dest.lookup.code,
                                              call.departure_date, call.return_date)
          /\ FlightsRaisePartWay(upstream.flights) => FlightsFallback
    /\ HotelsDone =>
          /\ Len(hotels_data.value) \in 1..5
          /\ \/ HotelsFallback /\ hotels_data.path # "live"
             \/ /\ hotels_data.path = "live"
                /\ LET env == upstream.hotels
                   IN  /\ Len(hotels_data.value) = Cardinality(WithOffer(env))
                       /\ \A k \in 1..Len(hotels_data.value) :
                             hotels_data.value[k] =
                                 HotelRecord(env.offers[KthOf(WithOffer(env), k)], call.city)
          /\ HotelsRaisePartWay(upstream.hotels) => HotelsFallback
    /\ WeatherDone =>
          /\ Len(weather_data.value) \in 1..5
          /\ \/ WeatherFallback /\ weather_data.path # "live"
             \/ /\ weather_data.path = "live"
                /\ \A k \in 1..Len(weather_data.value) :
                      \E i \in 1..Len(upstream.weather.forecast.items) :
                          weather_data.value[k] =
                              ForecastEntry(upstream.weather.forecast.items[i])
          /\ WeatherRaisesPartWay(upstream.weather) => WeatherFallback

\* the second offer has no price: the record built from the first offer is
\* dropped and the three fallback flights come back
C15_PartialFlightsDiscarded ==
    /\ FlightsDone
    /\ upstream.flights.search.kind = "ok"
    /\ Len(upstream.flights.search.offers) >= 2
    /\ upstream.flights.search.offers[1] = "direct"
    /\ upstream.flights.search.offers[2] = "no_price"
    /\ flights_data.path = "except"
    /\ FlightsFallback

(***************************************************************************)
(* Properties of the two flows (Spec)                                      *)
(***************************************************************************)
Directed == call.fn = "generate_itinerary"
Surprise == call.fn = "surprise_destination"
FlowDone == (Directed \/ Surprise) /\ response # NotRun

\* the request inputs are well formed: every form field is there, the
\* departure date is a calendar day, the duration is an integer
WellFormedRequest ==
    Surprise \/ (/\ call.form.missing = "none"
                 /\ Strptime(call.form.departure_date).ok
                 /\ PyInt(call.form.duration).ok)

Succeeded == ~response.raised /\ response.body.success

Curated == { surprise_destinations[i] : i \in 1..Len(surprise_destinations) }

\* C5 as stated: with well-formed request inputs, whatever text the
\* generator returns (no JSON, JSON that does not parse, JSON with missing
\* keys or with a null or numeric destination), both flows end with
\* success=true.
C5_MalformedOutputNeverFails ==
    (FlowDone /\ WellFormedRequest /\ call.gen.kind = "text") => Succeeded

\* the generator answers {"destination": null} to a well-formed request:
\* the flow ends with status 500 and success=false
C5_NullDestinationFails ==
    /\ FlowDone
    /\ WellFormedRequest
    /\ call.gen = [kind |-> "text", text |-> Dumps(JObj({<<K("destination"), JNull>>}))]
    /\ draft.path = "parsed"
    /\ response.status = 500
    /\ ~response.body.success

\* C6 as stated: every success=true response of the surprise flow has one
\* of the ten curated destinations, and the city handed to the pipelines is
\* the city of that destination, whatever the generator returned.
C6_SurpriseDestinationCurated ==
    (FlowDone /\ Surprise /\ Succeeded) =>
        /\ response.body.destination.s \in Curated
        /\ \E d \in Curated :
              response.body.hotel_options = search_hotels(config, upstream.hotels,
                                                CityOf(d), AddDays(call.now, 1),
                                                AddDays(call.now, 6)).value

\* the generator answers without JSON: the surprise flow succeeds with the
\* destination of the default draft
C6_SurpriseGoesToParis ==
    /\ FlowDone
    /\ Surprise
    /\ Succeeded
    /\ draft.path = "no_json"
    /\ response.body.destination = JStr(<<"Paris", CM, WS, "France">>)
    /\ response.body.destination.s \notin Curated

\* an exception is raised in the flow, read off the inputs and the draft
FlowRaises ==
    \/ Directed /\ call.form.missing # "none"
    \/ call.gen.kind = "error"
    \/ draft # NotRun /\ DictGet(draft.value.m, K("destination"), JStr(<<>>)).t # "str"
    \/ Directed /\ ~Strptime(call.form.departure_date).ok
    \/ Directed /\ ~PyInt(call.form.duration).ok

ResponseFields ==
    { "destination", "description", "itinerary", "cuisine", "fun_fact",
      "estimated_cost", "best_time_to_visit", "packing_tips", "flight_options",
      "hotel_options", "weather_forecast" }

\* C8: in both flows an exception raised anywhere in the flow gives a
\* response with success=false and an error message and none of the
\* response fields; no failed response is partly populated, and no
\* exception leaves the handler.
C8_FailureResponseIsBare ==
    FlowDone =>
        /\ ~response.raised
        /\ FlowRaises =>
              /\ response.status = 500
              /\ response.body.success = FALSE
              /\ "error" \in DOMAIN response.body
        /\ response.body.success = FALSE =>
              /\ DOMAIN response.body = {"success", "error"}
              /\ DOMAIN response.body \cap ResponseFields = {}
        /\ response.body.success = TRUE => ~FlowRaises

\* a departure date that is no calendar day, met after the draft was
\* parsed: a failed response without any response field
C8_BadDateAfterDraft ==
    /\ FlowDone
    /\ Directed
    /\ call.form.departure_date.ymd = <<2024, 2, 30>>
    /\ draft # NotRun
    /\ draft.path = "parsed"
    /\ response.status = 500
    /\ DOMAIN response.body = {"success", "error"}

\* C9 as stated: every success=true response holds success, destination,
\* description, the six other draft fields (fun_fact among them), and the
\* three lists; itinerary, cuisine, best_time_to_visit and packing_tips
\* take their placeholder when the draft lacks them, estimated_cost the
\* empty mapping.
C9_SuccessResponseComplete ==
    (FlowDone /\ Succeeded) =>
        /\ {"success"} \cup ResponseFields \subseteq DOMAIN response.body
        /\ K("itinerary") \notin DictKeys(draft.value.m) =>
              response.body.itinerary = JStr(<<"Itinerary not available">>)
        /\ K("cuisine") \notin DictKeys(draft.value.m) =>
              response.body.cuisine = JStr(<<"Local cuisine information not available">>)
        /\ K("best_time_to_visit") \notin DictKeys(draft.value.m) =>
              response.body.best_time_to_visit = JStr(<<"Year-round destination">>)
        /\ K("packing_tips") \notin DictKeys(draft.value.m) =>
              response.body.packing_tips = JStr(<<"Pack according to season">>)
        /\ K("estimated_cost") \notin DictKeys(draft.value.m) =>
              response.body.estimated_cost = JObj({})

\* a draft with a fun_fact, and a success=true response without it
C9_FunFactDropped ==
    /\ FlowDone
    /\ Succeeded
    /\ K("fun_fact") \in DictKeys(draft.value.m)
    /\ "fun_fact" \notin DOMAIN response.body
    /\ DOMAIN response.body = ({"success"} \cup ResponseFields) \ {"fun_fact"}

\* the flow gets past the draft and the date arithmetic, to the pipelines
ReachesAggregation == FlowDone /\ ~FlowRaises

\* the calls of a flow that reaches aggregation: the draft, then each of the
\* three pipelines once
PipelineOps == <<"search_flights", "search_hotels", "get_weather_forecast">>

\* C12: in a flow that reaches aggregation all three pipelines are invoked,
\* and the result of each is what that pipeline gives on the answers of its
\* own upstream calls alone, whatever the other two met; the response carries
\* the three lists as returned
C12_PipelinesIndependent ==
    ReachesAggregation =>
        /\ Len(steps) = Len(Drafting) + 3
        /\ \A k \in 1..3 : steps[Len(Drafting) + k].op = PipelineOps[k]
        /\ flights_data # NotRun /\ hotels_data # NotRun /\ weather_data # NotRun
        /\ LET a == steps[Len(Drafting) + 1].args
           IN  flights_data = search_flights(config, upstream.flights,
                                             a[1], a[2], a[3], a[4])
        /\ LET a == steps[Len(Drafting) + 2].args
           IN  hotels_data = search_hotels(config, upstream.hotels, a[1], a[2], a[3])
        /\ LET a == steps[Len(Drafting) + 3].args
           IN  weather_data = get_weather_forecast(config, upstream.weather,
                                                   a[1], call.now)
        /\ Succeeded
        /\ response.body.flight_options = flights_data.value
        /\ response.body.hotel_options = hotels_data.value
        /\ response.body.weather_forecast = weather_data.value

\* a success response with live flights next to fallback weather
C12_LiveFlightsFallbackWeather ==
    /\ ReachesAggregation
    /\ Succeeded
    /\ flights_data.path = "live"
    /\ NoneMarked(response.body.flight_options, "note", FallbackMarker)
    /\ weather_data.path # "live"
    /\ AllMarked(response.body.weather_forecast, "description", WeatherFallbackMarker)

\* the arguments the handler passed to the k-th pipeline it called
PipelineArgs(k) == steps[Len(Drafting) + k].args

\* the destination the directed flow reads from the draft (line 508)
DraftDestination ==
    DictGet(draft.value.m, K("destination"), JStr(<<"Unknown Destination">>))

\* departure dates and durations with the return date the calendar gives
ReturnDates ==
    { << <<2024, 1, 1>>, <<"7">>, <<2024, 1, 8>> >>,
      << <<2024, 3, 1>>, <<"7">>, <<2024, 3, 8>> >>,
      << <<2024, 3, 1>>, <<"1", "0">>, <<2024, 3, 11>> >>,
      << <<2024, 3, 1>>, <<WS, "3">>, <<2024, 3, 4>> >>,
      << <<2024, 3, 1>>, <<"-", "1">>, <<2024, 2, 29>> >>,
      << <<2024, 12, 30>>, <<"7">>, <<2025, 1, 6>> >> }

\* C13: in the directed flow with a valid departure date and an integer
\* duration d, the return date is the departure date plus d calendar days
\* ("7" from 2024-01-01 gives 2024-01-08), the city is the trimmed text
\* before the first comma of the draft's destination, and the three pipelines
\* are called with that city and that (departure, return) pair, flights with
\* the request's origin in front
C13_DatesAndCityPassedOn ==
    (Directed /\ ReachesAggregation) =>
        LET dep == call.form.departure_date.ymd
            d == PyInt(call.form.duration).value
            ret == AddDays(dep, d)
            city == CityOf(DraftDestination.s)
        IN  /\ Strptime(call.form.departure_date).ok /\ PyInt(call.form.duration).ok
            /\ <<dep, call.form.duration, ret>> \in ReturnDates
            /\ AddDays(ret, 0 - d) = dep
            /\ Positions(city, CM) = {}
            /\ city = <<>> \/ (Head(city) # WS /\ city[Len(city)] # WS)
            /\ DraftDestination.s = Tokyo => city = <<"Tokyo">>
            /\ PipelineArgs(1) = <<call.form.origin_city, city, dep, ret>>
            /\ PipelineArgs(2) = <<city, dep, ret>>
            /\ PipelineArgs(3) = <<city, dep, ret>>
            /\ flights_data = search_flights(config, upstream.flights,
                                             call.form.origin_city, city, dep, ret)
            /\ hotels_data = search_hotels(config, upstream.hotels, city, dep, ret)

\* seven days from 2024-01-01 to Tokyo, Japan: the pipelines get Tokyo and
\* 2024-01-01 / 2024-01-08
C13_SevenDaysFromNewYear ==
    /\ Directed
    /\ ReachesAggregation
    /\ call.form.departure_date.ymd = <<2024, 1, 1>>
    /\ call.form.duration = <<"7">>
    /\ DraftDestination.s = Tokyo
    /\ PipelineArgs(1) = << <<"London">>, <<"Tokyo">>, <<2024, 1, 1>>, <<2024, 1, 8>> >>
    /\ PipelineArgs(2) = << <<"Tokyo">>, <<2024, 1, 1>>, <<2024, 1, 8>> >>
    /\ PipelineArgs(3) = PipelineArgs(2)

\* the request carries a duration that is no integer, or a departure_date
\* that is no calendar day
BadDuration == call.form.missing # "duration" /\ ~PyInt(call.form.duration).ok
BadDepartureDate ==
    call.form.missing # "departure_date" /\ ~Strptime(call.form.departure_date).ok

\* where in the calls of the handler one operation stands
StepsOf(op) == { k \in 1..Len(steps) : steps[k].op = op }

NoPipelineInvoked ==
    /\ \A k \in 1..3 : StepsOf(PipelineOps[k]) = {}
    /\ flights_data = NotRun /\ hotels_data = NotRun /\ weather_data = NotRun

SomePipelineInvoked ==
    \/ \E k \in 1..3 : StepsOf(PipelineOps[k]) # {}
    \/ flights_data # NotRun \/ hotels_data # NotRun \/ weather_data # NotRun

\* C16 as stated: in the directed flow a non-numeric duration or a malformed
\* departure_date is met only after text generation and normalization: the
\* text generator has been invoked exactly once, no pipeline is invoked and
\* the flow ends with success=false; and whenever a pipeline is invoked the
\* flow ends with success=true.
C16_DatesCheckedAfterDraft ==
    /\ (FlowDone /\ Directed /\ (BadDuration \/ BadDepartureDate))
          => /\ Cardinality(StepsOf("generate_content")) = 1
             /\ NoPipelineInvoked
             /\ ~Succeeded
    /\ (FlowDone /\ Directed /\ SomePipelineInvoked) => Succeeded

\* C16 for requests that carry all eight form fields; a request that lacks a
\* field ends with success=false before the text generator is invoked,
\* whatever its duration and departure_date
C16_DatesCheckedAfterDraftOfCompleteForm ==
    /\ (FlowDone /\ Directed /\ call.form.missing = "none"
          /\ (BadDuration \/ BadDepartureDate))
          => /\ Cardinality(StepsOf("generate_content")) = 1
             /\ steps[1].op = "generate_content"
             /\ NoPipelineInvoked
             /\ ~Succeeded
             /\ response.status = 500
             /\ call.gen.kind = "text"
                  => /\ steps = Drafting
                     /\ draft # NotRun
    /\ (FlowDone /\ Directed /\ call.form.missing # "none")
          => /\ steps = <<>>
             /\ draft = NotRun
             /\ NoPipelineInvoked
             /\ ~Succeeded
    /\ (FlowDone /\ Directed /\ SomePipelineInvoked)
          => /\ Succeeded
             /\ ~BadDuration /\ ~BadDepartureDate
             /\ \A k \in 1..3 : StepsOf(PipelineOps[k]) = {Len(Drafting) + k}

\* duration "x" in a complete form: the draft is generated and parsed, then
\* int() fails, no pipeline runs and the answer is success=false
C16_BadDurationMetAfterDraft ==
    /\ FlowDone
    /\ Directed
    /\ call.form.missing = "none"
    /\ call.form.duration = <<"x">>
    /\ steps = Drafting
    /\ draft.path = "parsed"
    /\ NoPipelineInvoked
    /\ response.status = 500
    /\ ~response.body.success

====
